---- MODULE Spec2Model ----
(***************************************************************************)
(* A model of script/utils.py of ground-sentence-video: compute_overlap,   *)
(* pad_labels, find_bce_weights and top_n_iou.                             *)
(*                                                                         *)
(* Numbers.  Times are exact: a time is held as an integer count of        *)
(* 1/fps seconds (top_n_iou divides by fps; compute_overlap only compares  *)
(* and subtracts, so it is applied to the scaled values).  A weight is an  *)
(* exact fraction in lowest terms, or nan for 0/0.  Floating-point         *)
(* rounding is outside the model.                                          *)
(***************************************************************************)
EXTENDS Integers, Sequences, FiniteSets, TLC

VARIABLES
    \* compute_overlap
    ov_pc, ov_args, ov_ret,
    \* pad_labels
    pad_pc, labels, pad_ret,
    \* find_bce_weights
    files, wpc, dataset, K, i, w0, time_steps, wret,
    reads, writes, filesAtCall, firstRet, returnedBefore, calls,
    \* top_n_iou
    tn_pc, tn_in, indices, tn_ret

vars == << ov_pc, ov_args, ov_ret, pad_pc, labels, pad_ret,
           files, wpc, dataset, K, i, w0, time_steps, wret,
           reads, writes, filesAtCall, firstRet, returnedBefore, calls,
           tn_pc, tn_in, indices, tn_ret >>

ovVars == << ov_pc, ov_args, ov_ret >>
padVars == << pad_pc, labels, pad_ret >>
wVars == << files, wpc, dataset, K, i, w0, time_steps, wret,
            reads, writes, filesAtCall, firstRet, returnedBefore, calls >>
tnVars == << tn_pc, tn_in, indices, tn_ret >>

----------------------------------------------------------------------------
(* Values a Python call can end with. *)

Num(n) == [kind |-> "num", val |-> n]
None == [kind |-> "None"]
Raised(what) == [kind |-> "error", what |-> what]

Min(a, b) == IF a <= b THEN a ELSE b
Max(a, b) == IF a >= b THEN a ELSE b

----------------------------------------------------------------------------
(* compute_overlap *)

\* Largest endpoint tried; endpoints range over -1..MaxTime.
MaxTime == 2
TimeVals == (0 - 1)..MaxTime

\* compute_overlap with its second return (end_b - start_b) taken for end_a - start_b.
compute_overlap_swapped(start_a, end_a, start_b, end_b) ==
    IF end_a < start_b \/ end_b < start_a THEN Num(0)
    ELSE IF start_a <= start_b
         THEN IF start_b <= end_a /\ end_a <= end_b THEN Num(end_b - start_b)
              ELSE IF end_a > end_b THEN Num(end_b - start_b)
              ELSE None
         ELSE IF start_a <= end_b /\ end_b <= end_a THEN Num(end_b - start_a)
              ELSE IF end_b > end_a THEN Num(end_a - start_a)
              ELSE None

\* The function as written: two early tests, then four returns; a path that
\* meets none of the inner tests falls off the end and yields None.
compute_overlap(start_a, end_a, start_b, end_b) ==
    IF end_a < start_b \/ end_b < start_a THEN Num(0)
    ELSE IF start_a <= start_b
         THEN IF start_b <= end_a /\ end_a <= end_b THEN Num(end_a - start_b)
              ELSE IF end_a > end_b THEN Num(end_b - start_b)
              ELSE None
         ELSE IF start_a <= end_b /\ end_b <= end_a THEN Num(end_b - start_a)
              ELSE IF end_b > end_a THEN Num(end_a - start_a)
              ELSE None

OvInit ==
    /\ ov_pc = "call"
    /\ ov_args \in [start_a : TimeVals, end_a : TimeVals,
                    start_b : TimeVals, end_b : TimeVals]
    /\ ov_ret = None

OvIdle ==
    /\ ov_pc = "off"
    /\ ov_args = [start_a |-> 0, end_a |-> 0, start_b |-> 0, end_b |-> 0]
    /\ ov_ret = None

OverlapCall ==
    /\ ov_pc = "call"
    /\ ov_ret' = compute_overlap(ov_args.start_a, ov_args.end_a,
                                 ov_args.start_b, ov_args.end_b)
    /\ ov_pc' = "returned"
    /\ UNCHANGED << ov_args, padVars, wVars, tnVars >>

----------------------------------------------------------------------------
(* pad_labels *)

\* Longest batch and longest label tried.
PadMaxN == 2
PadMaxT == 1
\* Label widths (shape[1]) tried, and the values a label holds.
Widths == {1, 2}
LabelVals == {0, 1}

\* A 2-D tensor: its shape (T, width) and its T rows; a (0, width) tensor has
\* no row and still has a width.
Tensors(maxT) ==
    UNION { { [shape |-> <<T, Kw>>, data |-> d] :
                d \in [1..T -> [1..Kw -> LabelVals]] } :
            T \in 0..maxT, Kw \in Widths }

SeqsUpTo(S, n) == UNION { [1..m -> S] : m \in 0..n }

RECURSIVE MaxOf(_)
MaxOf(s) == IF Len(s) = 1 THEN s[1] ELSE Max(s[1], MaxOf(Tail(s)))

\* torch.ones in place of torch.zeros.
ones(n, T, Kw) == [a \in 1..n |-> [t \in 1..T |-> [k \in 1..Kw |-> 1]]]

\* torch.zeros([n, T, Kw]): n blocks of T rows of Kw zeros.
zeros(n, T, Kw) == [a \in 1..n |-> [t \in 1..T |-> [k \in 1..Kw |-> 0]]]

\* Whether a (T, src) tensor can be assigned to a (T, dst) slice: equal
\* widths, or a width of 1, which torch broadcasts along the slice.
Broadcastable(src, dst) == src = dst \/ src = 1

\* labels_padded[i, :T_i, :] = labels[i], for a label that can be assigned.
AssignSlice(block, label, Kw) ==
    [t \in 1..Len(block) |->
        IF t <= label.shape[1]
        THEN [k \in 1..Kw |->
                IF label.shape[2] = Kw THEN label.data[t][k] ELSE label.data[t][1]]
        ELSE block[t]]

\* The loop over i, from idx on; the assignment raises when the widths do not
\* broadcast.
RECURSIVE PadLoop(_, _, _, _)
PadLoop(ls, idx, padded, Kw) ==
    IF idx > Len(ls)
    THEN [kind |-> "tensor", shape |-> <<Len(ls), Len(padded[1]), Kw>>, data |-> padded]
    ELSE IF ~Broadcastable(ls[idx].shape[2], Kw)
         THEN Raised("RuntimeError")
         ELSE PadLoop(ls, idx + 1,
                      [padded EXCEPT ![idx] = AssignSlice(padded[idx], ls[idx], Kw)], Kw)

\* np.max of an empty list raises.
pad_labels(ls) ==
    IF Len(ls) = 0
    THEN Raised("ValueError")
    ELSE LET num_labels == Len(ls)
             max_len == MaxOf([a \in 1..num_labels |-> ls[a].shape[1]])
             Kw == ls[1].shape[2]
         IN  PadLoop(ls, 1, zeros(num_labels, max_len, Kw), Kw)

PadInit ==
    /\ pad_pc = "call"
    /\ labels \in SeqsUpTo(Tensors(PadMaxT), PadMaxN)
    /\ pad_ret = None

PadIdle ==
    /\ pad_pc = "off"
    /\ labels = << >>
    /\ pad_ret = None

PadCall ==
    /\ pad_pc = "call"
    /\ pad_ret' = pad_labels(labels)
    /\ pad_pc' = "returned"
    /\ UNCHANGED << labels, ovVars, wVars, tnVars >>

----------------------------------------------------------------------------
(* find_bce_weights *)

\* State of the call.  files: the cache files of the working directory, by
\* name.  wpc: where the call stands.  reads[a]: how often the current call has
\* read example a; writes: how often it has saved.  filesAtCall: files as the
\* call began.  firstRet[f]: what the first call to return under file name f
\* returned; returnedBefore: whether one had returned when this call began.

\* Longest dataset, longest label and number of calls tried.
WMaxN == 2
WMaxT == 1
MaxCalls == 2
\* dataset.name of the datasets tried.
Names == {"train", "val"}

\* 'w0_{}_{}.pt'.format(K, dataset.name)
FileName(Kc, name) == "w0_" \o ToString(Kc) \o "_" \o name \o ".pt"

\* An os.path.exists that never finds the file.
exists_never(fs, f) == FALSE

\* os.path.exists(f), for the files fs of the working directory.
exists(fs, f) == f \in DOMAIN fs

\* torch.save(v, f): the file is created or overwritten.
save(fs, f, v) == [x \in DOMAIN fs \cup {f} |-> IF x = f THEN v ELSE fs[x]]

RECURSIVE GCD(_, _)
GCD(a, b) == IF b = 0 THEN a ELSE GCD(b, a % b)

NaN == [kind |-> "nan"]
Inf(sign) == [kind |-> "inf", sign |-> sign]
Frac(n, d) == LET g == GCD(IF n < 0 THEN 0 - n ELSE n, d)
              IN  [kind |-> "frac", num |-> n \div g, den |-> d \div g]

\* count / time_steps in floating point: 0/0 is nan and c/0 is infinite.
Div(c, d) ==
    IF d = 0 THEN (IF c = 0 THEN NaN ELSE Inf(IF c > 0 THEN 1 ELSE 0 - 1))
    ELSE Frac(c, d)

\* 1 - w
OneMinus(w) ==
    CASE w.kind = "nan" -> NaN
      [] w.kind = "inf" -> Inf(0 - w.sign)
      [] OTHER -> Frac(w.den - w.num, w.den)

RECURSIVE SumTo(_, _)
SumTo(f, n) == IF n = 0 THEN 0 ELSE f[n] + SumTo(f, n - 1)

\* torch.sum(label, dim=0): one sum per column.
ColumnSums(label) ==
    [k \in 1..label.shape[2] |->
        SumTo([t \in 1..label.shape[1] |-> label.data[t][k]], label.shape[1])]

\* w0 += tmp, the positive time-steps counted for the negative ones.
Accumulate_positives(w, T, tmp) ==
    [k \in 1..Len(w) |-> w[k] + (IF Len(tmp) = Len(w) THEN tmp[k] ELSE tmp[1])]

\* w0 += T - tmp, for a tmp that broadcasts to the K entries of w0.
Accumulate(w, T, tmp) ==
    [k \in 1..Len(w) |-> w[k] + (T - (IF Len(tmp) = Len(w) THEN tmp[k] ELSE tmp[1]))]

\* A loop that stops one example short.
num_samples_short(ds) == IF Len(ds.data) = 0 THEN 0 ELSE Len(ds.data) - 1

\* len(dataset)
num_samples(ds) == Len(ds.data)

\* The pair a call returns: w0, 1 - w0.
Pair(w) == [kind |-> "pair", w0 |-> w, w1 |-> [k \in 1..Len(w) |-> OneMinus(w[k])]]

NoDataset == [name |-> "", data |-> << >>]

WInit ==
    /\ files = << >>
    /\ wpc = "idle"
    /\ dataset \in { [name |-> "", data |-> d] : d \in SeqsUpTo(Tensors(WMaxT), WMaxN) }
    /\ K = 0
    /\ i = 0
    /\ w0 = << >>
    /\ time_steps = 0
    /\ wret = None
    /\ reads = << >>
    /\ writes = 0
    /\ filesAtCall = << >>
    /\ firstRet = << >>
    /\ returnedBefore = FALSE
    /\ calls = 0

WIdle ==
    /\ files = << >>
    /\ wpc = "off"
    /\ dataset = NoDataset
    /\ K = 0
    /\ i = 0
    /\ w0 = << >>
    /\ time_steps = 0
    /\ wret = None
    /\ reads = << >>
    /\ writes = 0
    /\ filesAtCall = << >>
    /\ firstRet = << >>
    /\ returnedBefore = FALSE
    /\ calls = 0

\* The call and its test of the cache file (line 133).  The datasets of a run
\* hold the same examples under different names.
WCall(Kc, name) ==
    /\ wpc \in {"idle", "raised"}
    /\ calls < MaxCalls
    /\ calls' = calls + 1
    /\ dataset' = [dataset EXCEPT !.name = name]
    /\ K' = Kc
    /\ reads' = [a \in 1..Len(dataset.data) |-> 0]
    /\ writes' = 0
    /\ filesAtCall' = files
    /\ returnedBefore' = (FileName(Kc, name) \in DOMAIN firstRet)
    /\ wret' = None
    /\ i' = 0
    /\ time_steps' = 0
    /\ IF ~exists(files, FileName(Kc, name))
       THEN /\ wpc' = "scan"
            /\ w0' = [k \in 1..Kc |-> 0]
       ELSE /\ wpc' = "load"
            /\ w0' = << >>
    /\ UNCHANGED << files, firstRet, ovVars, padVars, tnVars >>

\* One turn of the loop (lines 140-145): example i is read and added.
WScan ==
    /\ wpc = "scan"
    /\ i < num_samples(dataset)
    /\ LET label == dataset.data[i + 1]
           T == label.shape[1]
           tmp == ColumnSums(label)
       IN  /\ reads' = [reads EXCEPT ![i + 1] = @ + 1]
           /\ time_steps' = time_steps + T
           /\ IF Broadcastable(Len(tmp), K)
              THEN /\ w0' = Accumulate(w0, T, tmp)
                   /\ i' = i + 1
                   /\ UNCHANGED << wpc, wret >>
              ELSE /\ wpc' = "raised"
                   /\ wret' = Raised("RuntimeError")
                   /\ UNCHANGED << w0, i >>
    /\ UNCHANGED << files, dataset, K, writes, filesAtCall, firstRet, returnedBefore, calls,
                    ovVars, padVars, tnVars >>

\* dataset[i] raises (line 141): the call ends there.
WRaise ==
    /\ wpc = "scan"
    /\ i < num_samples(dataset)
    /\ wpc' = "raised"
    /\ wret' = Raised("dataset")
    /\ UNCHANGED << files, dataset, K, i, w0, time_steps, reads, writes,
                    filesAtCall, firstRet,
                    returnedBefore, calls, ovVars, padVars, tnVars >>

\* After the loop (lines 147-148): the division and torch.save.
WSave ==
    /\ wpc = "scan"
    /\ i >= num_samples(dataset)
    /\ w0' = [k \in 1..Len(w0) |-> Div(w0[k], time_steps)]
    /\ files' = save(files, FileName(K, dataset.name), w0')
    /\ writes' = writes + 1
    /\ wpc' = "saved"
    /\ UNCHANGED << dataset, K, i, time_steps, wret, reads, filesAtCall,
                    firstRet, returnedBefore, calls, ovVars, padVars, tnVars >>

NoteFirst(fr, f, r) == IF f \in DOMAIN fr THEN fr ELSE save(fr, f, r)

\* return w0, 1-w0 (line 150)
WReturn ==
    /\ wpc = "saved"
    /\ wret' = Pair(w0)
    /\ firstRet' = NoteFirst(firstRet, FileName(K, dataset.name), wret')
    /\ wpc' = "idle"
    /\ UNCHANGED << files, dataset, K, i, w0, time_steps, reads, writes,
                    filesAtCall, returnedBefore, calls, ovVars, padVars, tnVars >>

\* The else branch (lines 154-156): torch.load and return.
WLoad ==
    /\ wpc = "load"
    /\ w0' = files[FileName(K, dataset.name)]
    /\ wret' = Pair(w0')
    /\ firstRet' = NoteFirst(firstRet, FileName(K, dataset.name), wret')
    /\ wpc' = "idle"
    /\ UNCHANGED << files, dataset, K, i, time_steps, reads, writes,
                    filesAtCall, returnedBefore, calls, ovVars, padVars, tnVars >>

WNext ==
    \/ \E Kc \in Widths, name \in Names : WCall(Kc, name)
    \/ WScan
    \/ WRaise
    \/ WSave
    \/ WReturn
    \/ WLoad

----------------------------------------------------------------------------
(* top_n_iou *)

\* Largest --delta tried; --delta ranges over -1..MaxDelta.
MaxDelta == 1
Deltas == (0 - 1)..MaxDelta
\* The shapes (n_batch, T, K) of y_pred, the scores, the ground-truth times
\* (seconds) and the other arguments tried.
Shapes == { <<1, 2, 2>>, <<2, 2, 1>> }
Scores == {0, 1}
GoldTimes == {0, 1, 2}
Thresholds == {0, 1}
TopNs == {1, 2, 5}
\* (sample_rate, fps)
Rates == { <<2, 1>>, <<1, 2>> }
GoldSegments == { g \in GoldTimes \X GoldTimes : g[1] <= g[2] }

TnInputs ==
    UNION { [ y_pred : [1..sh[1] -> [1..sh[2] -> [1..sh[3] -> Scores]]],
              gold : [1..sh[1] -> GoldSegments],
              delta : Deltas,
              threshold : Thresholds,
              top_n : TopNs,
              rate : Rates ] : sh \in Shapes }

\* y_pred.view(n_batch, -1)[n]: row n flattened, flat index j (from 0) at j + 1.
View(y, n) ==
    LET T == Len(y[n])
        Kw == Len(y[n][1])
    IN  [j \in 1..(T * Kw) |-> y[n][((j - 1) \div Kw) + 1][((j - 1) % Kw) + 1]]

\* The index rows torch.topk may return for one flattened row: k distinct flat
\* indices (from 0), largest score first, none left out that scores higher
\* than one taken; equal scores come in any order.
TopK(flat, k) ==
    { s \in [1..k -> 0..(Len(flat) - 1)] :
        /\ \A a, b \in 1..k : a < b => (s[a] # s[b] /\ flat[s[a] + 1] >= flat[s[b] + 1])
        /\ \A u \in 0..(Len(flat) - 1) :
              (\A a \in 1..k : s[a] # u) => \A a \in 1..k : flat[u + 1] <= flat[s[a] + 1] }

\* T * K, the length of a flattened row.
RowLen(y) == Len(y[1]) * Len(y[1][1])

\* torch.topk(y_pred.view(n_batch, -1), k, dim=-1): one index row per example.
topk(y, k) ==
    { c \in [1..Len(y) -> UNION { TopK(View(y, n), k) : n \in 1..Len(y) }] :
        \A n \in 1..Len(y) : c[n] \in TopK(View(y, n), k) }

\* Times are counted in 1/fps seconds: t seconds is t * fps.
Scaled(t, fps) == t * fps

\* (indices // K) * sample_rate / fps
end_time(index, Kw, sample_rate) == (index \div Kw) * sample_rate

\* The window added to the end time instead of subtracted.
start_time_added(index, Kw, sample_rate, delta) ==
    end_time(index, Kw, sample_rate) + ((index % Kw) + 1) * delta * sample_rate

\* end_times - (scale_nums * delta * sample_rate / fps)
start_time(index, Kw, sample_rate, delta) ==
    end_time(index, Kw, sample_rate) - ((index % Kw) + 1) * delta * sample_rate

\* The list np.max is applied to, for example n.
Overlaps(in, idx, n) ==
    LET Kw == Len(in.y_pred[n][1])
        sr == in.rate[1]
        fps == in.rate[2]
    IN  [j \in 1..Len(idx[n]) |->
            compute_overlap(start_time(idx[n][j], Kw, sr, in.delta),
                            end_time(idx[n][j], Kw, sr),
                            Scaled(in.gold[n][1], fps), Scaled(in.gold[n][2], fps))]

\* max_overlap >= threshold
hit_or_equal(max_overlap, threshold, fps) ==
    IF max_overlap >= Scaled(threshold, fps) THEN 1 ELSE 0

\* int(max_overlap > threshold)
hit(max_overlap, threshold, fps) ==
    IF max_overlap > Scaled(threshold, fps) THEN 1 ELSE 0

\* The loop over the batch from example n on; np.max cannot order a None.
RECURSIVE ScoreLoop(_, _, _, _)
ScoreLoop(in, idx, n, score) ==
    IF n > Len(in.y_pred) THEN Num(score)
    ELSE LET ovs == Overlaps(in, idx, n)
         IN  IF \E j \in 1..Len(ovs) : ovs[j].kind # "num"
             THEN Raised("TypeError")
             ELSE ScoreLoop(in, idx, n + 1,
                            score + hit(MaxOf([j \in 1..Len(ovs) |-> ovs[j].val]),
                                        in.threshold, in.rate[2]))

TnInit ==
    /\ tn_pc = "call"
    /\ tn_in \in TnInputs
    /\ indices = << >>
    /\ tn_ret = None

TnIdle ==
    /\ tn_pc = "off"
    /\ tn_in = << >>
    /\ indices = << >>
    /\ tn_ret = None

\* The call: torch.topk picks the indices, then the loop scores the batch.
TopNCall ==
    /\ tn_pc = "call"
    /\ tn_in.top_n <= RowLen(tn_in.y_pred)
    /\ indices' \in topk(tn_in.y_pred, tn_in.top_n)
    /\ tn_ret' = ScoreLoop(tn_in, indices', 1, 0)
    /\ tn_pc' = "returned"
    /\ UNCHANGED << tn_in, ovVars, padVars, wVars >>

\* torch.topk raises when k exceeds the length of the flattened row.
TopNRaise ==
    /\ tn_pc = "call"
    /\ tn_in.top_n > RowLen(tn_in.y_pred)
    /\ tn_ret' = Raised("RuntimeError")
    /\ tn_pc' = "returned"
    /\ UNCHANGED << tn_in, indices, ovVars, padVars, wVars >>

----------------------------------------------------------------------------
(* Specifications, one per function. *)

InitOverlap == OvInit /\ PadIdle /\ WIdle /\ TnIdle

SpecOverlap == InitOverlap /\ [][OverlapCall]_vars

InitPad == PadInit /\ OvIdle /\ WIdle /\ TnIdle

SpecPad == InitPad /\ [][PadCall]_vars

InitTopN == TnInit /\ OvIdle /\ PadIdle /\ WIdle

SpecTopN == InitTopN /\ [][TopNCall \/ TopNRaise]_vars

InitWeights == WInit /\ OvIdle /\ PadIdle /\ TnIdle

SpecWeights == InitWeights /\ [][WNext]_vars

----------------------------------------------------------------------------
(* Properties of compute_overlap (SpecOverlap). *)

OvValid == ov_args.start_a <= ov_args.end_a /\ ov_args.start_b <= ov_args.end_b
OvDisjoint == ov_args.end_a < ov_args.start_b \/ ov_args.end_b < ov_args.start_a

\* C1: for start_a <= end_a and start_b <= end_b, compute_overlap returns a
\* number (no path falls off the end): 0 for disjoint intervals, otherwise
\* min(end_a, end_b) - max(start_a, start_b).
C1_OverlapTotalAndExact ==
    (ov_pc = "returned" /\ OvValid) =>
        /\ ov_ret.kind = "num"
        /\ ov_ret.val = IF OvDisjoint THEN 0
                        ELSE Min(ov_args.end_a, ov_args.end_b)
                             - Max(ov_args.start_a, ov_args.start_b)

\* C1's case: b lies strictly inside a, and the length of b came back.
C1_Witness ==
    /\ ov_pc = "returned"
    /\ ov_args.start_a < ov_args.start_b
    /\ ov_args.start_b < ov_args.end_b
    /\ ov_args.end_b < ov_args.end_a
    /\ ov_ret = Num(ov_args.end_b - ov_args.start_b)

\* C6: a call with start_a > end_a or start_b > end_b is rejected with an
\* error; it returns no number, and so no negative length.
C6_InvalidIntervalRejected ==
    (ov_pc = "returned" /\ ~OvValid) => ov_ret.kind = "error"

----------------------------------------------------------------------------
(* Properties of pad_labels (SpecPad). *)

PadCommonK == \A a \in 1..Len(labels) : labels[a].shape[2] = labels[1].shape[2]
PadMaxLen ==
    CHOOSE m \in { labels[a].shape[1] : a \in 1..Len(labels) } :
        \A a \in 1..Len(labels) : labels[a].shape[1] <= m

\* C3: for a non-empty batch of (T_i, K) labels of one K, pad_labels returns an
\* (N, max T_i, K) array whose block i holds labels[i] in its rows 1..T_i, in
\* order, and zeros in every later row.
C3_PadRoundTrip ==
    (pad_pc = "returned" /\ Len(labels) > 0 /\ PadCommonK) =>
        /\ pad_ret.kind = "tensor"
        /\ pad_ret.shape = << Len(labels), PadMaxLen, labels[1].shape[2] >>
        /\ Len(pad_ret.data) = Len(labels)
        /\ \A a \in 1..Len(labels) :
              /\ Len(pad_ret.data[a]) = PadMaxLen
              /\ \A t \in 1..PadMaxLen :
                    IF t <= labels[a].shape[1]
                    THEN pad_ret.data[a][t] = labels[a].data[t]
                    ELSE pad_ret.data[a][t] = [k \in 1..labels[1].shape[2] |-> 0]

\* C3's case: two labels of width 2 and different lengths, the longer one
\* holding a 1, padded to one array.
C3_Witness ==
    /\ pad_pc = "returned"
    /\ pad_ret.kind = "tensor"
    /\ PadCommonK
    /\ Len(labels) >= 2
    /\ labels[1].shape[2] = 2
    /\ \E a, b \in 1..Len(labels) :
          /\ labels[a].shape[1] < labels[b].shape[1]
          /\ \E t \in 1..labels[b].shape[1] : labels[b].data[t][2] = 1

\* C8: a batch in which some label's width differs from the first label's is
\* rejected with an error; no padded array is returned.
C8_WidthMismatchRejected ==
    (pad_pc = "returned" /\ Len(labels) > 0 /\ ~PadCommonK) => pad_ret.kind = "error"

----------------------------------------------------------------------------
(* Properties of find_bce_weights (SpecWeights). *)

WFile == FileName(K, dataset.name)
\* The call under way found no cache file.
WMiss == calls > 0 /\ WFile \notin DOMAIN filesAtCall
WTotalSteps == SumTo([a \in 1..Len(dataset.data) |-> dataset.data[a].shape[1]],
                     Len(dataset.data))
WZeroSteps(k) ==
    Cardinality({ p \in (1..Len(dataset.data)) \X (1..WMaxT) :
                    /\ p[2] <= dataset.data[p[1]].shape[1]
                    /\ dataset.data[p[1]].data[p[2]][k] = 0 })
WWidthsAreK == \A a \in 1..Len(dataset.data) : dataset.data[a].shape[2] = K

\* C4: once a call with a (K, dataset name) has returned, a later call with the
\* same K and name reads no example, leaves the cache file as it was, and
\* returns the pair the first call returned.
C4_CacheHitIdempotent ==
    (calls > 0 /\ returnedBefore) =>
        /\ wpc \in {"load", "idle"}
        /\ \A a \in 1..Len(reads) : reads[a] = 0
        /\ writes = 0
        /\ WFile \in DOMAIN files
        /\ files = filesAtCall
        /\ wpc = "idle" => wret = firstRet[WFile]

\* C4's case: a second call under the same file name has returned, over a
\* dataset that has examples to read.
C4_Witness ==
    /\ calls > 1
    /\ returnedBefore
    /\ wpc = "idle"
    /\ wret.kind = "pair"
    /\ Len(dataset.data) > 0
    /\ WTotalSteps > 0

\* C5: on a cache miss over a dataset of width-K 0/1 labels with at least one
\* time-step, the returned w0[k] is (time-steps whose label k is 0) / (all
\* time-steps), so lies in [0, 1], and w0[k] + w1[k] = 1.
C5_WeightsAreNegativeFractions ==
    (WMiss /\ wpc = "idle" /\ WWidthsAreK /\ WTotalSteps > 0) =>
        /\ wret.kind = "pair"
        /\ Len(wret.w0) = K
        /\ Len(wret.w1) = K
        /\ \A k \in 1..K :
              /\ wret.w0[k].kind = "frac"
              /\ wret.w1[k].kind = "frac"
              /\ wret.w0[k].den > 0
              /\ wret.w1[k].den > 0
              /\ wret.w0[k].num * WTotalSteps = WZeroSteps(k) * wret.w0[k].den
              /\ 0 <= wret.w0[k].num
              /\ wret.w0[k].num <= wret.w0[k].den
              /\ wret.w0[k].num * wret.w1[k].den + wret.w1[k].num * wret.w0[k].den
                    = wret.w0[k].den * wret.w1[k].den

\* C5's case: a miss over two width-2 labels returned a weight strictly
\* between 0 and 1.
C5_Witness ==
    /\ WMiss
    /\ wpc = "idle"
    /\ WWidthsAreK
    /\ K = 2
    /\ Len(dataset.data) = 2
    /\ wret.kind = "pair"
    /\ wret.w0[1].kind = "frac"
    /\ 0 < wret.w0[1].num
    /\ wret.w0[1].num < wret.w0[1].den

\* C7: on a cache miss that accumulates 0 time-steps (an empty dataset, or
\* every T_i = 0) the call ends with an error: it returns no weights and
\* writes no cache file.
C7_ZeroTimeStepsRejected ==
    (WMiss /\ wpc \in {"idle", "raised"} /\ WTotalSteps = 0) =>
        /\ wret.kind = "error"
        /\ WFile \notin DOMAIN files

\* C9: on a cache miss every example is read exactly once, in order; the cache
\* file is written exactly once, after the last example was read and before
\* the call returns; while the scan runs, and when it ends in an error, the
\* files are as they were when the call began, with no file for the key.
C9_ScanOnceThenSave ==
    WMiss =>
        /\ wpc \in {"scan", "raised", "saved", "idle"}
        /\ wpc = "scan" =>
              \A a \in 1..Len(reads) : reads[a] = IF a <= i THEN 1 ELSE 0
        /\ wpc \in {"scan", "raised"} =>
              /\ writes = 0
              /\ files = filesAtCall
              /\ \A a \in 1..Len(reads) : reads[a] <= 1
        /\ wpc \in {"saved", "idle"} =>
              /\ writes = 1
              /\ Len(reads) = Len(dataset.data)
              /\ \A a \in 1..Len(reads) : reads[a] = 1
              /\ DOMAIN files = DOMAIN filesAtCall \cup {WFile}
              /\ \A f \in DOMAIN filesAtCall : files[f] = filesAtCall[f]
        /\ wpc = "saved" => wret = None
        /\ wpc = "idle" => wret.kind = "pair"

\* C9's case: after an earlier call, a miss over a dataset of two examples has
\* read both, saved and returned.
C9_Witness ==
    /\ WMiss
    /\ calls > 1
    /\ wpc = "idle"
    /\ Len(dataset.data) = 2
    /\ reads = <<1, 1>>
    /\ writes = 1
    /\ WFile \in DOMAIN files

----------------------------------------------------------------------------
(* Properties of top_n_iou (SpecTopN). *)

TnN == Len(tn_in.y_pred)
TnKw == Len(tn_in.y_pred[1][1])
TnRan == tn_pc = "returned" /\ tn_in.top_n <= RowLen(tn_in.y_pred)
\* The score of flat cell index (from 0) of example n.
TnScore(n, index) == tn_in.y_pred[n][(index \div TnKw) + 1][(index % TnKw) + 1]
TnChosen(n) == { indices[n][j] : j \in 1..Len(indices[n]) }

\* The claim's decoding of a flat index, in 1/fps seconds:
\* t = index // K, k = index % K, end_time = t * sample_stride / frame_rate,
\* start_time = end_time - (k + 1) * delta * sample_stride / frame_rate.
C2_End(index) == (index \div TnKw) * tn_in.rate[1]
C2_Start(index) == C2_End(index) - ((index % TnKw) + 1) * tn_in.delta * tn_in.rate[1]
C2_Overlap(n, index) ==
    compute_overlap(C2_Start(index), C2_End(index),
                    tn_in.gold[n][1] * tn_in.rate[2], tn_in.gold[n][2] * tn_in.rate[2]).val
C2_MaxOverlap(n) ==
    CHOOSE m \in { C2_Overlap(n, c) : c \in TnChosen(n) } :
        \A c \in TnChosen(n) : C2_Overlap(n, c) <= m

\* C2: top_n_iou returns the number of examples n whose largest overlap with
\* the ground truth, over the top_n highest-scoring flat cells of example n
\* decoded as above, is strictly greater than the threshold; equality does not
\* count.
C2_TopNCountsStrictHits ==
    TnRan =>
        /\ \A n \in 1..TnN :
              /\ Cardinality(TnChosen(n)) = tn_in.top_n
              /\ \A c \in TnChosen(n), u \in (0..(RowLen(tn_in.y_pred) - 1)) \ TnChosen(n) :
                    TnScore(n, u) <= TnScore(n, c)
        /\ tn_ret = Num(Cardinality({ n \in 1..TnN :
                            C2_MaxOverlap(n) > tn_in.threshold * tn_in.rate[2] }))

\* C2's case: a batch of two, of which one example's best overlap equals the
\* non-zero threshold and is not counted, and the other's exceeds it.
C2_Witness ==
    /\ TnRan
    /\ TnN = 2
    /\ tn_in.threshold > 0
    /\ tn_ret = Num(1)
    /\ \E n \in 1..TnN : C2_MaxOverlap(n) = tn_in.threshold * tn_in.rate[2]
    /\ \E n \in 1..TnN : C2_MaxOverlap(n) > tn_in.threshold * tn_in.rate[2]

\* The (start_time, end_time) pairs handed to compute_overlap.
TnCandidates ==
    { << start_time(indices[n][j], TnKw, tn_in.rate[1], tn_in.delta),
         end_time(indices[n][j], TnKw, tn_in.rate[1]) >> :
        n \in 1..TnN, j \in 1..tn_in.top_n }

\* C10: with delta >= 0 (and top_n <= T*K, sample_stride > 0, frame_rate > 0)
\* every candidate handed to compute_overlap has start_time <= end_time,
\* strictly so when delta >= 1; the start may be negative.
C10_CandidatesOrdered ==
    (TnRan /\ tn_in.delta >= 0) =>
        \A c \in TnCandidates :
            /\ c[1] <= c[2]
            /\ tn_in.delta >= 1 => c[1] < c[2]

\* C10's case: a candidate whose window reaches before time 0.
C10_Witness ==
    /\ TnRan
    /\ tn_in.delta >= 1
    /\ \E c \in TnCandidates : c[1] < 0 /\ c[2] > 0

====
